---------------------------- MODULE Spec2Model ----------------------------
(***************************************************************************)
(* A model of botok-js: the character classifier (BoString), the chunker   *)
(* (ChunkFramework), the dictionary trie (BasicTrie), the match engine     *)
(* (Tokenize), the token (Token) and the finalizer (WordTokenizer).        *)
(*                                                                         *)
(* Conventions.  A JavaScript string is a sequence of code units; index i  *)
(* of the source is element i+1 here.  A JavaScript object is a function   *)
(* whose DOMAIN is the set of its own keys, so `k in o` is k \in DOMAIN o  *)
(* and the empty object is <<>>.  An array is a sequence.  A trie node is  *)
(* named by the path of labels from the head, and a reference to a node's  *)
(* data object is that path, so that a write through the reference is a    *)
(* write to the trie.  The key `_` of a node's data (always the empty      *)
(* object) is left out.                                                    *)
(***************************************************************************)
EXTENDS Integers, Sequences, FiniteSets, TLC

VARIABLES
  trie,         \* BasicTrie: path -> [leaf, data]
  text,         \* ChunkFramework.text of the running call
  chunks,       \* ChunkFramework.chunks: the frame served to the match engine
  pc,           \* position of the tokenize call
  cIdx,         \* Tokenize.tokenize locals
  walker,
  syls,
  maxMatch,
  matchData,
  currentNode,
  tokens,
  tokenNode,    \* per token, the trie node whose data object it was assigned
  splitAffixes, \* the option of the running call
  callNo,       \* how many tokenize calls were started on this tokenizer
  firstTokens,  \* what the first call returned
  trieAtCall,   \* the trie when the running call started
  lastOp,       \* the last trie operation, with its arguments and result
  repeated,     \* the last trie operation repeats the one before it
  prevTrie,     \* the trie before the last trie operation
  added,        \* the words passed to add so far
  active,       \* the words added or reactivated and not deactivated since
  nOps,         \* number of trie operations made
  bs,           \* ChunkFrameworkBase.bs: the BoString of the framework
  chunkCall,    \* the last call of a chunking method, with its result
  foundCall     \* the call of addFoundWordOrNonWord the last exit made

vars == <<trie, text, chunks, pc, cIdx, walker, syls, maxMatch, matchData,
          currentNode, tokens, tokenNode, splitAffixes, callNo, firstTokens,
          trieAtCall, lastOp, repeated, prevTrie, added, active, nOps,
          bs, chunkCall, foundCall>>

tokVars == <<text, chunks, pc, cIdx, walker, syls, maxMatch, matchData,
             currentNode, tokens, tokenNode, splitAffixes, callNo, firstTokens,
             trieAtCall, foundCall>>

opVars == <<lastOp, repeated, prevTrie, added, active, nOps>>

chunkVars == <<bs, chunkCall>>

---------------------------------------------------------------------------
(* Bounds of the model *)

\* longest input text, in code units
MaxLen == 4
\* cap on the token list, so that a call that never returns stays finite
MaxTokens == 6
\* number of trie operations in a run of SpecTrie
MaxOps == 3

---------------------------------------------------------------------------
(* types/index.ts: CharMarkers and ChunkMarkers *)

CONS == 0
SUB_CONS == 1
VOW == 2
TSEK == 3
NORMAL_PUNCT == 4
SPECIAL_PUNCT == 5
NUMERAL == 6
SYMBOL == 7
IN_SYL_MARK == 8
SKRT_CONS == 10
SKRT_SUB_CONS == 11
SKRT_VOW == 12
TRANSPARENT == 13
LATIN == 14
CJK == 15
CharOTHER == 16

ChunkTEXT == 100
ChunkPUNCT == 101
ChunkNON_PUNCT == 103
ChunkBO == 108
ChunkOTHER == 109
ChunkLATIN == 110

\* utils/constants.ts CHUNK_VALUES: a partial map from marker to name
CHUNK_VALUES ==
  [m \in 100..105 |->
     CASE m = 100 -> "TEXT"   [] m = 101 -> "PUNCT" [] m = 102 -> "NON_PUNCT"
       [] m = 103 -> "BO"     [] m = 104 -> "NON_BO" [] m = 105 -> "OTHER"]

\* code units used in the inputs
GA == 3906          \* U+0F42, a consonant that is also one of the affixes
TSEK_CHAR == 3851   \* U+0F0B
LATIN_A == 65       \* U+0041

SHAD_CHAR == 3853    \* U+0F0D
SPACE_CHAR == 32     \* U+0020

Alphabet == {GA, TSEK_CHAR, LATIN_A}

PunctAlphabet == {GA, TSEK_CHAR, SHAD_CHAR}

SpaceAlphabet == {GA, SPACE_CHAR}

\* the input texts: Tibetan mixed with Latin, with punctuation, with spaces
Texts ==
  UNION {[1..n -> A] : n \in 0..MaxLen,
                       A \in {Alphabet, PunctAlphabet, SpaceAlphabet}}

\* the ignore set handed to BoString (WordTokenizer's default: none)
ignoreChars == {}

---------------------------------------------------------------------------
(* textunits/BoString.ts *)

classifyTibetanCharacter(cp) ==
  IF cp >= 3904 /\ cp <= 3948 THEN CONS
  ELSE IF cp >= 3984 /\ cp <= 4028 THEN SUB_CONS
  ELSE IF cp >= 3953 /\ cp <= 3972 THEN VOW
  ELSE IF cp = 3851 THEN TSEK
  ELSE IF cp >= 3872 /\ cp <= 3891 THEN NUMERAL
  ELSE IF cp \in 3853..3858 THEN NORMAL_PUNCT
  ELSE IF cp >= 3840 /\ cp <= 3863 THEN SPECIAL_PUNCT
  ELSE IF cp >= 3866 /\ cp <= 3871 THEN SYMBOL
  ELSE IF cp = 3967 \/ (cp >= 3974 /\ cp <= 3979) THEN IN_SYL_MARK
  ELSE CharOTHER

classifySanskritCharacter(cp) ==
  IF cp >= 2325 /\ cp <= 2361 THEN SKRT_CONS
  ELSE IF cp >= 2366 /\ cp <= 2380 THEN SKRT_VOW
  ELSE IF cp >= 2392 /\ cp <= 2399 THEN SKRT_SUB_CONS
  ELSE CharOTHER

classifyCharacter(cp) ==
  IF cp >= 3840 /\ cp <= 4095 THEN classifyTibetanCharacter(cp)
  ELSE IF (cp >= 2304 /\ cp <= 2431) \/ (cp >= 2432 /\ cp <= 2559)
    THEN classifySanskritCharacter(cp)
  ELSE IF (cp >= 65 /\ cp <= 90) \/ (cp >= 97 /\ cp <= 122) THEN LATIN
  ELSE IF (cp >= 19968 /\ cp <= 40959) \/ (cp >= 13312 /\ cp <= 19903) THEN CJK
  ELSE IF cp \in {32, 9, 10, 13, 160} \/ cp \in 8192..8197 THEN TRANSPARENT
  ELSE CharOTHER

\* a classifier that looks at the ignore set only outside the Tibetan block
classifyCharactersRangeFirst(t, ignore) ==
  [i \in 0..(Len(t) - 1) |->
     IF t[i + 1] \in ignore /\ ~(t[i + 1] >= 3840 /\ t[i + 1] <= 4095)
       THEN TRANSPARENT ELSE classifyCharacter(t[i + 1])]

\* BoString.baseStructure: one category per index 0..len-1
classifyCharacters(t, ignore) ==
  [i \in 0..(Len(t) - 1) |->
     IF t[i + 1] \in ignore THEN TRANSPARENT ELSE classifyCharacter(t[i + 1])]

baseStructure(t) == classifyCharacters(t, ignoreChars)

\* new BoString(text, ignoreChars)
BoString(t, ignore) ==
  [length |-> Len(t), ignoreChars |-> ignore,
   baseStructure |-> classifyCharacters(t, ignore)]

\* BoString.isTibetan
isTibetan(t, i) ==
  /\ i \in DOMAIN baseStructure(t)
  /\ baseStructure(t)[i] \notin {LATIN, CJK, CharOTHER, TRANSPARENT}

---------------------------------------------------------------------------
(* chunks/ChunkFramework.ts *)

\* the loop of chunkUsing and of chunk, from an open run (curType, curStart)
RECURSIVE chunkLoop(_, _, _, _, _, _)
chunkLoop(label, i, end, curType, curStart, acc) ==
  IF i >= end
    THEN IF curStart < end THEN Append(acc, <<curType, curStart, end - curStart>>)
                           ELSE acc
    ELSE IF curType # label[i]
      THEN chunkLoop(label, i + 1, end, label[i], i,
                     Append(acc, <<curType, curStart, i - curStart>>))
      ELSE chunkLoop(label, i + 1, end, curType, curStart, acc)

\* a scan that starts at index 0 whatever start is
chunkUsingFromZero(test, start, end, yesValue, noValue) ==
  LET label == [i \in DOMAIN test |-> IF test[i] THEN yesValue ELSE noValue]
  IN  IF start >= end THEN <<>>
      ELSE chunkLoop(label, 1, end, label[0], 0, <<>>)

\* chunkUsing(testFn, start, end, yesValue, noValue); test is testFn as a
\* function of the index
chunkUsing(test, start, end, yesValue, noValue) ==
  LET label == [i \in DOMAIN test |-> IF test[i] THEN yesValue ELSE noValue]
  IN  IF start >= end THEN <<>>
      ELSE chunkLoop(label, start + 1, end, label[start], start, <<>>)

\* chunk(start, end, testFn): the same scan with the test's value as label
chunk(start, end, test) ==
  IF start >= end THEN <<>>
  ELSE chunkLoop(test, start + 1, end, test[start], start, <<>>)

isBoUnicode(t, i) ==
  baseStructure(t)[i] \notin {CharOTHER, LATIN, CJK}

isTsekOrLongSkrtVowel(t, i) ==
  \/ baseStructure(t)[i] = TSEK
  \/ t[i + 1] = 3967
  \/ t[i + 1] = 3953

\* isPunctuation: a tsek, a space or a punctuation mark after a symbol,
\* numeral, other, punctuation, tsek or space counts as punctuation too
isPunctuation(t, i) ==
  LET charType == baseStructure(t)[i]
  IN  \/ /\ i > 0
         /\ baseStructure(t)[i - 1] \in
              {SYMBOL, NUMERAL, CharOTHER, NORMAL_PUNCT, SPECIAL_PUNCT, TSEK,
               TRANSPARENT}
         /\ charType \in {TSEK, TRANSPARENT, NORMAL_PUNCT}
      \/ charType \in {NORMAL_PUNCT, SPECIAL_PUNCT, TRANSPARENT}

isLatin(t, i) == baseStructure(t)[i] \in {LATIN, TRANSPARENT}

chunkPunctuation(t, start, end, yesValue, noValue) ==
  chunkUsing([i \in 0..(Len(t) - 1) |-> isPunctuation(t, i)],
             start, end, yesValue, noValue)

chunkLatin(t, start, end, yesValue, noValue) ==
  chunkUsing([i \in 0..(Len(t) - 1) |-> isLatin(t, i)],
             start, end, yesValue, noValue)

chunkBoText(t, start, end, yesValue, noValue) ==
  chunkUsing([i \in 0..(Len(t) - 1) |-> isBoUnicode(t, i)],
             start, end, yesValue, noValue)

\* syllabify(start, end): the separator-free runs, each lengthened by the
\* run of separators that follows it
syllabify(t, start, end, yesValue) ==
  LET indices == chunk(start, end,
                       [i \in 0..(Len(t) - 1) |-> isTsekOrLongSkrtVowel(t, i)])
      merged == [j \in 1..Len(indices) |->
                   IF ~indices[j][1] /\ j < Len(indices) /\ indices[j + 1][1]
                     THEN <<indices[j][1], indices[j][2],
                            indices[j][3] + indices[j + 1][3]>>
                     ELSE indices[j]]
      kept == SelectSeq(merged, LAMBDA c : ~c[1])
  IN  [j \in 1..Len(kept) |-> <<yesValue, kept[j][2], kept[j][3]>>]

\* a frame entry is [syl, meta]; syl = Null for a non-Tibetan run
Null == <<>>

RECURSIVE serveLoop(_, _, _, _)
serveLoop(t, boChunks, j, acc) ==
  IF j > Len(boChunks) THEN acc
  ELSE LET c == boChunks[j]
       IN IF c[1] = ChunkBO
            THEN LET syllables == syllabify(t, c[2], c[2] + c[3], ChunkTEXT)
                 IN serveLoop(t, boChunks, j + 1,
                      acc \o [k \in 1..Len(syllables) |->
                                [syl |-> syllables[k],
                                 meta |-> <<ChunkTEXT, c[2], c[3]>>]])
            ELSE serveLoop(t, boChunks, j + 1,
                      Append(acc, [syl |-> Null, meta |-> c]))

serveSylsToTrie(t) ==
  serveLoop(t, chunkBoText(t, 0, Len(t), ChunkBO, ChunkOTHER), 1, <<>>)

\* ChunkFramework.getCharType: bs.getCharType(position) || CharMarkers.CharOTHER
getCharType(t, position) ==
  IF position \in DOMAIN baseStructure(t) /\ baseStructure(t)[position] # 0
    THEN baseStructure(t)[position]
    ELSE CharOTHER

---------------------------------------------------------------------------
(* JavaScript objects and values *)

EmptyObj == <<>>

Has(o, k) == k \in DOMAIN o

Put(o, k, v) == [x \in DOMAIN o \cup {k} |-> IF x = k THEN v ELSE o[x]]

\* Object.assign(target, source)
ObjectAssign(target, source) ==
  [k \in DOMAIN target \cup DOMAIN source |->
     IF k \in DOMAIN source THEN source[k] ELSE target[k]]

\* an argument that may be undefined, a number or an object
Undefined == [t |-> "undefined"]
Num(n) == [t |-> "number", v |-> n]
Obj(o) == [t |-> "object", v |-> o]

\* a word argument: string[] | string
Arr(w) == [isArray |-> TRUE, val |-> w]
Str(k) == [isArray |-> FALSE, val |-> k]

\* o.k is truthy; strings are TLA+ strings for pos and sense, code-unit
\* sequences for lemma, and freq is a number
TruthyKey(o, k) ==
  /\ Has(o, k)
  /\ CASE k = "pos" -> o[k] # ""
       [] k = "sense" -> o[k] # ""
       [] k = "lemma" -> o[k] # <<>>
       [] k = "freq" -> o[k] # 0
       [] k = "affixed" -> o[k]

---------------------------------------------------------------------------
(* tries/BasicTrie.ts *)

SenseKeys == {"pos", "lemma", "freq", "sense", "affixed"}

\* new TrieNode()
TrieNode == [leaf |-> FALSE, data |-> EmptyObj]

\* new BasicTrie()
BasicTrie == [p \in {<<>>} |-> TrieNode]

wordArray(word) == IF word.isArray THEN word.val ELSE <<word.val>>

\* an emptiness test that forgets the empty string
isEmptyWordArrayOnly(word) == word.isArray /\ word.val = <<>>

\* !word || (Array.isArray(word) && word.length === 0)
isEmptyWord(word) == word.val = <<>>

\* TrieNode.getChild: the child's path, or Null
getChild(tr, p, label) ==
  IF Append(p, label) \in DOMAIN tr THEN <<Append(p, label)>> ELSE Null

\* the navigation loop shared by add, hasWord, addData and deactivate:
\* follows w from node p while a child exists
RECURSIVE descend(_, _, _, _)
descend(tr, w, i, p) ==
  IF i > Len(w) THEN [found |-> TRUE, node |-> p, at |-> i]
  ELSE IF getChild(tr, p, w[i]) # Null
    THEN descend(tr, w, i + 1, Append(p, w[i]))
    ELSE [found |-> FALSE, node |-> p, at |-> i]

\* m1.k === m2.k, a missing key being undefined
SameField(m1, m2, k) ==
  /\ Has(m1, k) = Has(m2, k)
  /\ Has(m1, k) => m1[k] = m2[k]

\* isDiffMeaning: true when the two meanings agree on the five attributes
isDiffMeaning(m1, m2) ==
  \A k \in SenseKeys : SameField(m1, m2, k)

\* an addMeaning that appends without looking for an existing sense
addMeaningAlways(senses, meaning) ==
  [senses |-> Append(senses, meaning), ret |-> TRUE]

\* addMeaning(senses, meaning): the new array and the returned value
addMeaning(senses, meaning) ==
  IF \E i \in 1..Len(senses) : isDiffMeaning(senses[i], meaning)
    THEN [senses |-> senses, ret |-> FALSE]
    ELSE [senses |-> Append(senses, meaning), ret |-> TRUE]

RECURSIVE addMeanings(_, _, _)
addMeanings(senses, list, i) ==
  IF i > Len(list) THEN senses
  ELSE addMeanings(addMeaning(senses, list[i]).senses, list, i + 1)

\* updateNodeData(node, data) for an object data: the node's new data
updateNodeData(nd, data) ==
  LET s0 == IF Has(nd, "senses") THEN nd.senses ELSE <<>>
      s1 == IF \E k \in {"pos", "lemma", "freq", "sense"} : TruthyKey(data, k)
              THEN addMeaning(s0, data).senses ELSE s0
      s2 == IF Has(data, "senses") THEN addMeanings(s1, data.senses, 1) ELSE s1
      others == DOMAIN data \ (SenseKeys \cup {"senses"})
  IN  [k \in DOMAIN nd \cup {"senses"} \cup others |->
         IF k = "senses" THEN s2 ELSE IF k \in others THEN data[k] ELSE nd[k]]

\* add(word, data?): the new trie
add(tr, word, data) ==
  LET w == wordArray(word)
      d == descend(tr, w, 1, <<>>)
      created == {SubSeq(w, 1, n) : n \in d.at..Len(w)}
      nd == IF w \in DOMAIN tr THEN tr[w].data ELSE EmptyObj
      nd2 == IF data.t = "object" THEN updateNodeData(nd, data.v)
             ELSE IF Has(nd, "senses") THEN nd ELSE Put(nd, "senses", <<>>)
  IN  [p \in DOMAIN tr \cup created |->
         IF p = w THEN [leaf |-> TRUE, data |-> nd2]
         ELSE IF p \in DOMAIN tr THEN tr[p] ELSE TrieNode]

\* walk(char, currentNode?): a node reference is [null, path]
NullNode == [null |-> TRUE, path |-> <<>>]
NodeRef(p) == [null |-> FALSE, path |-> p]

walk(tr, char, node) ==
  LET from == IF node.null THEN <<>> ELSE node.path
      child == getChild(tr, from, char)
  IN  IF child = Null THEN NullNode ELSE NodeRef(child[1])

\* TrieNode.isMatch
isMatch(tr, node) == tr[node.path].leaf

\* hasWord(word): exists, the reference to the data returned, or the throw
hasWord(tr, word) ==
  IF isEmptyWord(word) THEN [threw |-> TRUE, exists |-> FALSE, data |-> <<>>]
  ELSE LET d == descend(tr, wordArray(word), 1, <<>>)
       IN [threw |-> FALSE,
           exists |-> d.found /\ tr[d.node].leaf,
           data |-> d.node]

\* addData(word, data): the new trie, the returned value, or the throw
addData(tr, word, data) ==
  IF isEmptyWord(word) THEN [threw |-> TRUE, ret |-> FALSE, trie |-> tr]
  ELSE LET d == descend(tr, wordArray(word), 1, <<>>)
           nd == tr[d.node].data
       IN IF ~d.found \/ ~tr[d.node].leaf
            THEN [threw |-> FALSE, ret |-> FALSE, trie |-> tr]
          ELSE IF data.t = "number"
            THEN [threw |-> FALSE, ret |-> TRUE,
                  trie |-> [tr EXCEPT ![d.node].data = Put(nd, "formFreq", data.v)]]
          ELSE IF data.t = "object"
            THEN LET s0 == IF Has(nd, "senses") THEN nd.senses ELSE <<>>
                     r == addMeaning(s0, data.v)
                 IN [threw |-> FALSE, ret |-> r.ret,
                     trie |-> [tr EXCEPT ![d.node].data = Put(nd, "senses", r.senses)]]
          ELSE [threw |-> FALSE, ret |-> FALSE, trie |-> tr]

\* a deactivate that ignores reverse and always clears the flag
deactivateNoReverse(tr, word, reverse) ==
  IF isEmptyWord(word) THEN [threw |-> TRUE, ret |-> FALSE, trie |-> tr]
  ELSE LET d == descend(tr, wordArray(word), 1, <<>>)
       IN IF ~d.found THEN [threw |-> FALSE, ret |-> FALSE, trie |-> tr]
          ELSE [threw |-> FALSE, ret |-> TRUE,
                trie |-> [tr EXCEPT ![d.node].leaf = FALSE]]

\* a deactivate that, on a missing word, toggles the last node it reached
deactivateOnPrefix(tr, word, reverse) ==
  IF isEmptyWord(word) THEN [threw |-> TRUE, ret |-> FALSE, trie |-> tr]
  ELSE LET d == descend(tr, wordArray(word), 1, <<>>)
       IN [threw |-> FALSE, ret |-> d.found,
           trie |-> [tr EXCEPT ![d.node].leaf = reverse]]

\* deactivate(word, reverse): the new trie, the returned value, or the throw
deactivate(tr, word, reverse) ==
  IF isEmptyWord(word) THEN [threw |-> TRUE, ret |-> FALSE, trie |-> tr]
  ELSE LET d == descend(tr, wordArray(word), 1, <<>>)
       IN IF ~d.found THEN [threw |-> FALSE, ret |-> FALSE, trie |-> tr]
          ELSE [threw |-> FALSE, ret |-> TRUE,
                trie |-> [tr EXCEPT ![d.node].leaf = reverse]]

---------------------------------------------------------------------------
(* tokenizers/Tokenize.ts: building a token *)

Min(a, b) == IF a < b THEN a ELSE b

\* String.prototype.includes
Includes(word, pat) ==
  \E i \in 1..Len(word) : /\ i + Len(pat) - 1 <= Len(word)
                          /\ SubSeq(word, i, i + Len(pat) - 1) = pat

hasSanskritChar(charTypes) ==
  \E i \in 1..Len(charTypes) : charTypes[i] \in {SKRT_VOW, SKRT_CONS, SKRT_SUB_CONS}

hasSanskritSyllable(word) ==
  \/ Includes(word, <<3953, 3954>>)
  \/ Includes(word, <<3953, 3956>>)
  \/ Includes(word, <<4018, 3968>>)

isSanskrit(charTypes, word) ==
  hasSanskritChar(charTypes) \/ hasSanskritSyllable(word)

\* the category createToken stores for index position of the text
tokenCharType(t, position) == getCharType(t, position)

\* createToken(ttype, start, length, syls, sylStartEnd, data)
createToken(t, ttype, start, length, tsyls, sylStartEnd, data) ==
  LET base == [text |-> SubSeq(t, start + 1, Min(start + length, Len(t))),
               chunkType |-> IF ttype \in DOMAIN CHUNK_VALUES
                               THEN CHUNK_VALUES[ttype] ELSE "TEXT",
               start |-> start,
               length |-> length]
      nonNull == SelectSeq(tsyls, LAMBDA x : x # Null)
      withSyls ==
        IF tsyls[1] # Null
          THEN ObjectAssign(base,
                 [syllableIndices |->
                    [j \in 1..Len(nonNull) |->
                       [k \in 1..Len(nonNull[j]) |-> nonNull[j][k] - start]],
                  syllableStartEnd |->
                    [j \in 1..Len(sylStartEnd) |->
                       [start |-> sylStartEnd[j].start - start,
                        end |-> sylStartEnd[j].end - start]]])
          ELSE base
      charTypes == [i \in 1..length |-> tokenCharType(t, start + i - 1)]
      assigned == ObjectAssign(Put(withSyls, "charTypes", charTypes), data)
  IN  Put(assigned, "sanskrit", isSanskrit(charTypes, assigned.text))

\* the ttype block of chunksToToken: data.senses after the stamping
stampSenses(data, ttype) ==
  IF ttype = "" THEN data
  ELSE IF ~Has(data, "senses") THEN Put(data, "senses", <<[pos |-> ttype]>>)
  ELSE Put(data, "senses",
           [i \in 1..Len(data.senses) |->
              IF ~TruthyKey(data.senses[i], "pos")
                THEN Put(data.senses[i], "pos", ttype)
                ELSE data.senses[i]])

\* a token assigned from a copy of the data taken before the stamping
tokenDataBeforeStamp(data, ttype) == data

\* the data object the token is assigned from: the stamped object itself
tokenData(data, ttype) == stampSenses(data, ttype)

\* start and length of a frame entry as chunksToToken reads them
\* (chunkData[0]?.[1] ?? 0 and chunkData[0]?.[2] ?? 0)
entryStart(e) == IF e.syl # Null THEN e.syl[2] ELSE 0
entryLength(e) == IF e.syl # Null THEN e.syl[3] ELSE 0

RECURSIVE sumLengths(_, _, _)
sumLengths(ch, sy, i) ==
  IF i > Len(sy) THEN 0
  ELSE entryLength(ch[sy[i] + 1]) + sumLengths(ch, sy, i + 1)

\* chunksToToken(syls, data, ttype): the token, the data object after the
\* call, or the throw; ttype "" is undefined
chunksToToken(ch, t, sy, data, ttype) ==
  IF Len(sy) = 0 THEN [threw |-> TRUE, token |-> EmptyObj, data |-> data]
  ELSE
    LET first == ch[sy[1] + 1]
        last == ch[sy[Len(sy)] + 1]
        tokenSyls == [j \in 1..Len(sy) |-> ch[sy[j] + 1].syl]
        tokenType == last.meta[1]
        tokenStart == entryStart(first)
        tokenLength == IF Len(sy) = 1 THEN entryLength(first)
                       ELSE sumLengths(ch, sy, 1)
        withSyl == IF Len(sy) = 1 THEN sy
                   ELSE SelectSeq(sy, LAMBDA i : ch[i + 1].syl # Null)
        sylStartEnd ==
          [j \in 1..Len(withSyl) |->
             [start |-> entryStart(ch[withSyl[j] + 1]),
              end |-> entryStart(ch[withSyl[j] + 1])
                        + entryLength(ch[withSyl[j] + 1])]]
    IN [threw |-> FALSE,
        token |-> createToken(t, tokenType, tokenStart, tokenLength, tokenSyls,
                              sylStartEnd, tokenData(data, ttype)),
        data |-> stampSenses(data, ttype)]

\* ttype of a matched entry: NO_POS when no sense has a pos
matchType(data) ==
  IF ~Has(data, "senses")
       \/ \A i \in 1..Len(data.senses) : ~TruthyKey(data.senses[i], "pos")
    THEN "NO_POS" ELSE ""

Max(S) == CHOOSE x \in S : \A y \in S : y <= x

\* addFoundWordOrNonWord(cIdx, matchData, syls, tokens): the token pushed,
\* the node whose data object it was assigned, the trie after the writes
\* through matchData, the returned index, or the throw.  matchData maps a
\* frame index to the node whose data it holds.
addFoundWordOrNonWord(tr, ch, t, idx, md, sy) ==
  IF idx \in DOMAIN md THEN
    LET data == tr[md[idx]].data
        r == chunksToToken(ch, t, sy, data, matchType(data))
    IN [threw |-> r.threw, token |-> r.token, ret |-> idx,
        node |-> <<md[idx]>>,
        trie |-> [tr EXCEPT ![md[idx]].data = r.data]]
  ELSE IF DOMAIN md # {} THEN
    LET nonMaxIdx == Max(DOMAIN md)
        nonMaxSyls == SelectSeq(sy, LAMBDA x : x <= nonMaxIdx)
        data == tr[md[nonMaxIdx]].data
        r == chunksToToken(ch, t, nonMaxSyls, data, matchType(data))
    IN [threw |-> r.threw, token |-> r.token, ret |-> nonMaxIdx,
        node |-> <<md[nonMaxIdx]>>,
        trie |-> [tr EXCEPT ![md[nonMaxIdx]].data = r.data]]
  ELSE IF Len(sy) = 0 THEN
    [threw |-> TRUE, token |-> EmptyObj, ret |-> idx, node |-> Null,
     trie |-> tr]
  ELSE
    LET r == chunksToToken(ch, t, <<sy[1]>>, EmptyObj, "NO_POS")
        c1 == IF Len(sy) > 1 THEN idx - ((Len(sy) - 1) - 1) ELSE idx
        c2 == IF (c1 >= 0 /\ c1 < Len(ch) /\ ch[c1 + 1].syl = Null) \/ Len(sy) > 1
                THEN c1 - 1 ELSE c1
    IN [threw |-> r.threw, token |-> r.token, ret |-> c2, node |-> Null,
        trie |-> tr]

\* the string handed to walk: curSyl.map(i => text[i]).join('')
CharAtOrEmpty(t, i) == IF i >= 0 /\ i < Len(t) THEN <<t[i + 1]>> ELSE <<>>

sylString(t, curSyl) ==
  CharAtOrEmpty(t, curSyl[1]) \o CharAtOrEmpty(t, curSyl[2])
    \o CharAtOrEmpty(t, curSyl[3])

---------------------------------------------------------------------------
(* tokenizers/WordTokenizer.ts: the finalizer *)

TSEK_STR == <<3851>>
AA_STR == <<3936>>

affixes ==
  {<<3936, 3954>>, <<3942>>, <<3936, 3908>>, <<3906>>, <<3906, 3954>>,
   <<3906, 3954, 3942>>, <<3904, 4017, 3954>>, <<3904, 4017, 3954, 3942>>,
   <<3939>>, <<3938>>, <<3938, 3956>>, <<3923>>, <<3923, 3942>>,
   <<3936, 3928>>, <<3937, 3908>>, <<3928>>}

\* getPartLemmas(): partLemmas[part] || part
partLemma(part) ==
  CASE part = <<3936, 3954>> -> <<3906, 4017, 3954>>
    [] part = <<3942>> -> <<3906, 4017, 3954, 3942>>
    [] part = <<3936, 3908>> -> <<3937, 3908>>
    [] part = <<3906>> -> <<3936, 3925, 4018, 3908>>
    [] part = <<3906, 3954>> -> <<3906, 4017, 3954>>
    [] part = <<3906, 3954, 3942>> -> <<3906, 4017, 3954, 3942>>
    [] part = <<3904, 4017, 3954>> -> <<3906, 4017, 3954>>
    [] part = <<3904, 4017, 3954, 3942>> -> <<3906, 4017, 3954, 3942>>
    [] OTHER -> part

\* String.prototype.endsWith
EndsWith(str, suffix) ==
  /\ Len(suffix) <= Len(str)
  /\ SubSeq(str, Len(str) - Len(suffix) + 1, Len(str)) = suffix

hasAffix(token) ==
  /\ token.text # <<>>
  /\ token.chunkType = "TEXT"
  /\ \E affix \in affixes :
       EndsWith(token.text, affix \o TSEK_STR) \/ EndsWith(token.text, affix)

\* a splitTokenAffix that marks the token it is given as the host of an affix
splitTokenAffixHost(token) == <<Put(token, "affixHost", TRUE)>>

\* splitTokenAffix returns the token itself in both of its branches
splitTokenAffix(token) == <<token>>

RECURSIVE splitAffixed(_)
splitAffixed(toks) ==
  IF toks = <<>> THEN <<>>
  ELSE (IF hasAffix(Head(toks)) THEN splitTokenAffix(Head(toks))
                                ELSE <<Head(toks)>>)
       \o splitAffixed(Tail(toks))

\* the text a list of relative indices selects (Token.syls, joined)
RECURSIVE joinChars(_, _)
joinChars(txt, idxs) ==
  IF idxs = <<>> THEN <<>>
  ELSE CharAtOrEmpty(txt, Head(idxs)) \o joinChars(txt, Tail(idxs))

RECURSIVE joinSyls(_, _)
joinSyls(txt, sylsIdx) ==
  IF sylsIdx = <<>> THEN <<>>
  ELSE joinChars(txt, Head(sylsIdx)) \o joinSyls(txt, Tail(sylsIdx))

Flag(token, k) == Has(token, k) /\ token[k]

\* the body of getDefaultLemma's loop for one token
defaultLemma(token) ==
  IF ~(Has(token, "textUnaffixed") /\ token.textUnaffixed # <<>>) THEN token
  ELSE
    LET part == IF Has(token, "syllableIndices") /\ token.text # <<>>
                  THEN joinSyls(token.text, token.syllableIndices)
                  ELSE token.text
        lemma ==
          IF Flag(token, "affix") /\ ~Flag(token, "affixHost")
            THEN partLemma(part) \o TSEK_STR
          ELSE IF ~Flag(token, "affix") /\ Flag(token, "affixHost")
            THEN token.textUnaffixed
                   \o (IF Has(token, "affixation") /\ token.affixation.aa
                         THEN AA_STR ELSE <<>>)
                   \o TSEK_STR
          ELSE IF EndsWith(token.textUnaffixed, TSEK_STR)
            THEN token.textUnaffixed
            ELSE token.textUnaffixed \o TSEK_STR
        filled ==
          IF Has(token, "senses")
            THEN Put(token, "senses",
                   [i \in 1..Len(token.senses) |->
                      IF /\ ~TruthyKey(token.senses[i], "lemma")
                         /\ TruthyKey(token.senses[i], "pos")
                         /\ token.senses[i].pos # "NON_WORD"
                        THEN Put(token.senses[i], "lemma", lemma)
                        ELSE token.senses[i]])
            ELSE token
    IN IF ~Has(filled, "senses") \/ filled.senses = <<>>
         THEN Put(filled, "senses", <<[lemma |-> lemma]>>)
         ELSE filled

\* token i as the finalizer sees it: a token assigned a node's data shares
\* the node's senses array
View(tr, tok, node) ==
  IF node # Null /\ Has(tok, "senses") /\ Has(tr[node[1]].data, "senses")
    THEN Put(tok, "senses", tr[node[1]].data.senses)
    ELSE tok

\* getDefaultLemma(tokens): the loop, token by token; a lemma written into
\* a shared sense object is written into the trie, and a token given a new
\* senses array no longer shares the node's
RECURSIVE getDefaultLemma(_, _, _, _)
getDefaultLemma(tr, toks, nodes, i) ==
  IF i > Len(toks) THEN [trie |-> tr, tokens |-> toks, nodes |-> nodes]
  ELSE
    LET cur == View(tr, toks[i], nodes[i])
        new == defaultLemma(cur)
        shared == nodes[i] # Null /\ Has(cur, "senses")
        kept == shared /\ cur.senses # <<>>
        tr2 == IF kept
                 THEN [tr EXCEPT ![nodes[i][1]].data =
                                   Put(@, "senses", new.senses)]
                 ELSE tr
    IN getDefaultLemma(tr2,
                       [toks EXCEPT ![i] = new],
                       [nodes EXCEPT ![i] = IF kept THEN @ ELSE Null],
                       i + 1)

\* chooseBestSense: the first sense of the list with the most keys (the
\* head of a stable sort by decreasing number of keys)
chooseBestSense(senses) ==
  LET n(i) == Cardinality(DOMAIN senses[i])
      best == CHOOSE i \in 1..Len(senses) :
                /\ \A j \in 1..Len(senses) : n(j) <= n(i)
                /\ \A j \in 1..(i - 1) : n(j) < n(i)
  IN  senses[best]

applyChosenSense(token, sense) ==
  ObjectAssign(token,
    [k \in DOMAIN sense \cap {"pos", "lemma", "freq", "sense"} |-> sense[k]])

\* a loop body that tries the buckets in the order affixed, no affix
\* information, non-affixed
defaultEntryAffixedFirst(token) ==
  IF ~Has(token, "senses") \/ token.senses = <<>> THEN token
  ELSE
    LET affixed == SelectSeq(token.senses,
                     LAMBDA m : Has(m, "affixed") /\ m.affixed)
        nonAffixed == SelectSeq(token.senses,
                        LAMBDA m : Has(m, "affixed") /\ ~m.affixed)
        noAffixInfo == SelectSeq(token.senses, LAMBDA m : ~Has(m, "affixed"))
    IN IF affixed # <<>>
         THEN applyChosenSense(token, chooseBestSense(affixed))
       ELSE IF noAffixInfo # <<>>
         THEN applyChosenSense(token, chooseBestSense(noAffixInfo))
       ELSE applyChosenSense(token, chooseBestSense(nonAffixed))

\* the body of chooseDefaultEntry's loop for one token
defaultEntry(token) ==
  IF ~Has(token, "senses") \/ token.senses = <<>> THEN token
  ELSE
    LET affixed == SelectSeq(token.senses,
                     LAMBDA m : Has(m, "affixed") /\ m.affixed)
        nonAffixed == SelectSeq(token.senses,
                        LAMBDA m : Has(m, "affixed") /\ ~m.affixed)
        noAffixInfo == SelectSeq(token.senses, LAMBDA m : ~Has(m, "affixed"))
    IN IF nonAffixed # <<>>
         THEN applyChosenSense(token, chooseBestSense(nonAffixed))
       ELSE IF noAffixInfo # <<>>
         THEN applyChosenSense(token, chooseBestSense(noAffixInfo))
       ELSE applyChosenSense(token, chooseBestSense(affixed))

chooseDefaultEntry(toks) == [i \in 1..Len(toks) |-> defaultEntry(toks[i])]

\* WordTokenizer.tokenize after the match engine returned: the tokens
\* returned and the trie left behind
finalize(tr, toks, nodes, split) ==
  LET r == getDefaultLemma(tr, IF split THEN splitAffixed(toks) ELSE toks,
                           nodes, 1)
  IN  [trie |-> r.trie,
       tokens |-> chooseDefaultEntry(
                    [i \in 1..Len(r.tokens) |->
                       View(r.trie, r.tokens[i], r.nodes[i])])]

---------------------------------------------------------------------------
(* textunits/Token.ts: serialization *)

\* the value of field k is truthy (arrays and objects always are)
Truthy(k, v) ==
  CASE k \in {"pos", "sense"} -> v # ""
    [] k \in {"lemma", "textCleaned", "textUnaffixed"} -> v # <<>>
    [] k \in {"sanskrit", "affix", "affixHost"} -> v
    [] OTHER -> TRUE

\* the optional fields toJSON copies when truthy
OptionalFields ==
  {"textCleaned", "textUnaffixed", "pos", "lemma", "charTypes", "syllables",
   "syllableIndices", "syllableStartEnd", "senses", "sanskrit", "affix",
   "affixHost", "affixation"}

toJSON(token) ==
  LET keys == {"text", "start", "length", "chunkType"}
                \cup {k \in OptionalFields \cap DOMAIN token : Truthy(k, token[k])}
                \cup ({"freq"} \cap DOMAIN token)
  IN  [k \in keys |-> token[k]]

\* new Token(json): the field initializers, then Object.assign(this, json)
fromJSON(json) ==
  ObjectAssign([text |-> <<>>, start |-> 0, length |-> 0, chunkType |-> ""],
               json)

clone(token) == fromJSON(toJSON(token))

---------------------------------------------------------------------------
(* The dictionaries a Tokenize is constructed over, built with the trie's  *)
(* own operations.  The keys are the strings the match engine hands to     *)
(* walk for the texts over Alphabet.                                       *)

K == <<GA>>
KK == <<GA, GA>>
KT == <<GA, TSEK_CHAR>>

\* the senses of scenario S6
SensesS6 ==
  <<[pos |-> "A", affixed |-> TRUE],
    [pos |-> "B", affixed |-> FALSE, lemma |-> <<GA>>],
    [pos |-> "C"]>>

\* the trie of scenario S2: one word added as the list of its two syllables
DictS2 == add(BasicTrie, Arr(<<K, K>>), Obj([pos |-> "NOUN"]))

Dictionaries ==
  { BasicTrie,
    add(BasicTrie, Arr(<<KK, KT>>), Obj([pos |-> "NOUN"])),
    add(add(BasicTrie, Arr(<<KK>>), Obj([pos |-> "NOUN"])),
        Arr(<<KK, KT, KK>>), Obj([pos |-> "VERB"])),
    add(add(BasicTrie, Arr(<<KK>>), Obj([pos |-> "NOUN"])),
        Arr(<<KK, KT>>), Obj([pos |-> "VERB"])),
    add(BasicTrie, Arr(<<KK, KT, KK>>), Undefined),
    add(BasicTrie, Arr(<<K>>), Obj([lemma |-> <<GA>>])),
    deactivate(add(BasicTrie, Arr(<<KK, KT>>), Undefined),
               Arr(<<KK>>), TRUE).trie,
    deactivate(add(add(BasicTrie, Arr(<<KK>>), Obj([pos |-> "NOUN"])),
                   Arr(<<KK, KT>>), Obj([pos |-> "VERB"])),
               Arr(<<KK, KT>>), FALSE).trie,
    add(BasicTrie, Str(K),
        Obj([textUnaffixed |-> <<GA>>,
             senses |-> <<[pos |-> "NOUN"],
                          [pos |-> "VERB", freq |-> 3, affixed |-> FALSE]>>])),
    addData(add(BasicTrie, Str(K), Undefined), Str(K), Num(5)).trie,
    DictS2,
    add(add(BasicTrie, Arr(<<K>>), Obj([senses |-> SensesS6])),
        Arr(<<KK>>),
        Obj([senses |-> <<[pos |-> "D"], [pos |-> "E", freq |-> 2]>>])) }

NoOp == [op |-> "none", word |-> Arr(<<>>), arg |-> Undefined,
         ret |-> FALSE, threw |-> FALSE]

\* no chunking method was called yet
NoCall == [fn |-> "none", start |-> 0, end |-> 0, yes |-> 0, no |-> 0,
           test |-> <<>>, ret |-> <<>>]

\* the arguments of a call of addFoundWordOrNonWord: the index, the keys of
\* matchData and the syllable list
Found(idx, md, sy) ==
  [made |-> TRUE, idx |-> idx, keys |-> DOMAIN md, syls |-> sy]

\* no call of addFoundWordOrNonWord
NotFound == [made |-> FALSE, idx |-> 0, keys |-> {}, syls |-> <<>>]

\* the state after construction, common to the specifications
Constructed ==
  /\ text = <<>>
  /\ chunks = <<>>
  /\ pc = "idle"
  /\ cIdx = 0
  /\ walker = 0
  /\ syls = <<>>
  /\ maxMatch = <<>>
  /\ matchData = <<>>
  /\ currentNode = NullNode
  /\ tokens = <<>>
  /\ tokenNode = <<>>
  /\ splitAffixes = TRUE
  /\ callNo = 0
  /\ firstTokens = <<>>
  /\ trieAtCall = trie
  /\ lastOp = NoOp
  /\ repeated = FALSE
  /\ prevTrie = trie
  /\ added = {}
  /\ active = {}
  /\ nOps = 0
  /\ bs = BoString(<<>>, ignoreChars)
  /\ chunkCall = NoCall
  /\ foundCall = NotFound

\* new Tokenize(trie) over a loaded dictionary
Init ==
  /\ trie \in Dictionaries
  /\ Constructed

---------------------------------------------------------------------------
(* WordTokenizer.tokenize over the Tokenize of a loaded dictionary *)

\* the call: the frame is built and the match engine starts
Tokenize(t, split) ==
  /\ pc = "idle"
  /\ text' = t
  /\ chunks' = serveSylsToTrie(t)
  /\ splitAffixes' = split
  /\ cIdx' = 0
  /\ tokens' = <<>>
  /\ tokenNode' = <<>>
  /\ callNo' = 1
  /\ foundCall' = NotFound
  /\ trieAtCall' = trie
  /\ pc' = "outer"
  /\ UNCHANGED <<trie, walker, syls, maxMatch, matchData, currentNode,
                 firstTokens>>
  /\ UNCHANGED opVars
  /\ UNCHANGED chunkVars

\* the head of the outer loop: one more attempt from cIdx
BeginAttempt ==
  /\ pc = "outer"
  /\ cIdx < Len(chunks)
  /\ Len(tokens) < MaxTokens
  /\ walker' = cIdx
  /\ syls' = <<>>
  /\ maxMatch' = <<>>
  /\ matchData' = <<>>
  /\ currentNode' = NullNode
  /\ foundCall' = NotFound
  /\ pc' = "inner"
  /\ UNCHANGED <<trie, text, chunks, cIdx, tokens, tokenNode, splitAffixes,
                 callNo, firstTokens, trieAtCall>>
  /\ UNCHANGED opVars
  /\ UNCHANGED chunkVars

\* one more token, with the node whose data object it was assigned
Push(r) ==
  /\ tokens' = Append(tokens, r.token)
  /\ tokenNode' = Append(tokenNode, r.node)

\* a commit that takes the first recorded match instead of the last
CommitFirst(mm, md) ==
  LET first == mm[1]
  IN  \E r \in {addFoundWordOrNonWord(trie, chunks, text,
                                      cIdx + Len(first) - 1, md, first)} :
        /\ Push(r)
        /\ foundCall' = Found(cIdx + Len(first) - 1, md, first)
        /\ trie' = r.trie
        /\ cIdx' = cIdx + Len(first)
        /\ pc' = IF r.threw THEN "threw" ELSE "outer"

\* a commit that passes the walker as the index of the match
CommitWalker(mm, md) ==
  LET last == mm[Len(mm)]
  IN  \E r \in {addFoundWordOrNonWord(trie, chunks, text, walker, md, last)} :
        /\ Push(r)
        /\ foundCall' = Found(walker, md, last)
        /\ trie' = r.trie
        /\ cIdx' = cIdx + Len(last)
        /\ pc' = IF r.threw THEN "threw" ELSE "outer"

\* the foundMaxMatch block: the last recorded match is emitted
Commit(mm, md) ==
  LET last == mm[Len(mm)]
  IN  \E r \in {addFoundWordOrNonWord(trie, chunks, text,
                                      cIdx + Len(last) - 1, md, last)} :
        /\ Push(r)
        /\ foundCall' = Found(cIdx + Len(last) - 1, md, last)
        /\ trie' = r.trie
        /\ cIdx' = cIdx + Len(last)
        /\ pc' = IF r.threw THEN "threw" ELSE "outer"

\* an unmatched exit that steps over two frame entries when nothing was walked
NoMatchExitSkip ==
  IF Len(syls) > 0
    THEN \E r \in {addFoundWordOrNonWord(trie, chunks, text, walker,
                                        matchData, syls)} :
             /\ Push(r)
             /\ foundCall' = Found(walker, matchData, syls)
             /\ trie' = r.trie
             /\ cIdx' = IF Len(syls) = 1 THEN cIdx + 1 ELSE cIdx
             /\ pc' = IF r.threw THEN "threw" ELSE "outer"
    ELSE \E r \in {chunksToToken(chunks, text, <<cIdx>>, EmptyObj, "")} :
             /\ Push([token |-> r.token, node |-> Null])
             /\ foundCall' = NotFound
             /\ trie' = trie
             /\ cIdx' = cIdx + 2
             /\ pc' = IF r.threw THEN "threw" ELSE "outer"

\* the unmatched exit shared by the failed walk and the non-syllable entry
NoMatchExit ==
  IF Len(syls) > 0
    THEN \E r \in {addFoundWordOrNonWord(trie, chunks, text, walker,
                                        matchData, syls)} :
             /\ Push(r)
             /\ foundCall' = Found(walker, matchData, syls)
             /\ trie' = r.trie
             /\ cIdx' = IF Len(syls) = 1 THEN cIdx + 1 ELSE cIdx
             /\ pc' = IF r.threw THEN "threw" ELSE "outer"
    ELSE \E r \in {chunksToToken(chunks, text, <<cIdx>>, EmptyObj, "")} :
             /\ Push([token |-> r.token, node |-> Null])
             /\ foundCall' = NotFound
             /\ trie' = trie
             /\ cIdx' = cIdx + 1
             /\ pc' = IF r.threw THEN "threw" ELSE "outer"

\* chunks[walker]?.[0]
curSyl == IF walker < Len(chunks) THEN chunks[walker + 1].syl ELSE Null

\* an inner iteration on a syllable entry the trie can be walked on
SyllableWalk ==
  /\ pc = "inner"
  /\ curSyl # Null
  /\ LET node == walk(trie, sylString(text, curSyl), currentNode)
         syls1 == Append(syls, walker)
         atEnd == walker + 1 = Len(chunks)
     IN  /\ ~node.null
         /\ currentNode' = node
         /\ syls' = syls1
         /\ IF isMatch(trie, node)
              THEN LET md1 == [k \in DOMAIN matchData \cup {walker} |->
                                 IF k = walker THEN node.path ELSE matchData[k]]
                       mm1 == Append(maxMatch, syls1)
                   IN  /\ matchData' = md1
                       /\ maxMatch' = mm1
                       /\ IF atEnd
                            THEN Commit(mm1, md1) /\ walker' = walker
                            ELSE /\ walker' = walker + 1
                                 /\ UNCHANGED <<trie, cIdx, tokens, tokenNode, pc,
                                                foundCall>>
              ELSE /\ UNCHANGED <<matchData, maxMatch>>
                   /\ IF atEnd /\ Len(maxMatch) > 0
                        THEN Commit(maxMatch, matchData) /\ walker' = walker
                      ELSE IF atEnd
                        THEN \E r \in {addFoundWordOrNonWord(trie, chunks, text,
                                        walker, matchData, syls1)} :
                                 /\ Push(r)
                                 /\ foundCall' = Found(walker, matchData, syls1)
                                 /\ trie' = r.trie
                                 /\ cIdx' = cIdx + Len(syls1)
                                 /\ pc' = IF r.threw THEN "threw" ELSE "outer"
                                 /\ walker' = walker
                      ELSE /\ walker' = walker + 1
                           /\ UNCHANGED <<trie, cIdx, tokens, tokenNode, pc,
                                                foundCall>>
  /\ UNCHANGED <<text, chunks, splitAffixes, callNo, firstTokens, trieAtCall>>
  /\ UNCHANGED opVars
  /\ UNCHANGED chunkVars

\* an inner iteration on a syllable entry where walk returns null
SyllableStop ==
  /\ pc = "inner"
  /\ curSyl # Null
  /\ walk(trie, sylString(text, curSyl), currentNode).null
  /\ currentNode' = NullNode
  /\ IF Len(maxMatch) > 0 THEN Commit(maxMatch, matchData) ELSE NoMatchExit
  /\ UNCHANGED <<text, chunks, walker, syls, maxMatch, matchData,
                 splitAffixes, callNo, firstTokens, trieAtCall>>
  /\ UNCHANGED opVars
  /\ UNCHANGED chunkVars

\* an inner iteration on an entry with no syllable
NonSyllable ==
  /\ pc = "inner"
  /\ curSyl = Null
  /\ IF Len(maxMatch) > 0 THEN Commit(maxMatch, matchData) ELSE NoMatchExit
  /\ UNCHANGED <<text, chunks, walker, syls, maxMatch, matchData, currentNode,
                 splitAffixes, callNo, firstTokens, trieAtCall>>
  /\ UNCHANGED opVars
  /\ UNCHANGED chunkVars

\* the match engine returns and the finalizer runs
Finalize ==
  /\ pc = "outer"
  /\ cIdx >= Len(chunks)
  /\ \E r \in {finalize(trie, tokens, tokenNode, splitAffixes)} :
         /\ tokens' = r.tokens
         /\ trie' = r.trie
  /\ pc' = "done"
  /\ UNCHANGED <<text, chunks, cIdx, walker, syls, maxMatch, matchData,
                 currentNode, tokenNode, splitAffixes, callNo, firstTokens,
                 trieAtCall, foundCall>>
  /\ UNCHANGED opVars
  /\ UNCHANGED chunkVars

\* a second call on the same tokenizer, same text and options
TokenizeAgain ==
  /\ pc = "done"
  /\ callNo = 1
  /\ firstTokens' = tokens
  /\ callNo' = 2
  /\ foundCall' = NotFound
  /\ chunks' = serveSylsToTrie(text)
  /\ cIdx' = 0
  /\ tokens' = <<>>
  /\ tokenNode' = <<>>
  /\ trieAtCall' = trie
  /\ pc' = "outer"
  /\ UNCHANGED <<trie, text, walker, syls, maxMatch, matchData, currentNode,
                 splitAffixes>>
  /\ UNCHANGED opVars
  /\ UNCHANGED chunkVars

Next ==
  \/ pc = "idle" /\ \E t \in Texts, split \in BOOLEAN : Tokenize(t, split)
  \/ BeginAttempt
  \/ SyllableWalk
  \/ SyllableStop
  \/ NonSyllable
  \/ Finalize
  \/ TokenizeAgain

Spec == Init /\ [][Next]_vars

\* the tries of the runs followed to their end: the empty trie a WordTokenizer
\* is built with, and one with a two-syllable word so that the walk advances
LiveTries == {BasicTrie, DictS2}

InitLive ==
  /\ trie \in LiveTries
  /\ Constructed

\* the calls run to their end: tokenize is a sequential loop that is never
\* suspended
SpecLive ==
  /\ InitLive
  /\ [][Next]_vars
  /\ WF_vars(BeginAttempt)
  /\ WF_vars(SyllableWalk)
  /\ WF_vars(SyllableStop)
  /\ WF_vars(NonSyllable)
  /\ WF_vars(Finalize)

---------------------------------------------------------------------------
(* The trie under its own operations *)

Words == {Arr(<<>>), Str(<<>>), Arr(<<KK>>), Arr(<<KK, KT>>), Str(KK)}

AddArgs ==
  {Undefined, Obj([pos |-> "NOUN"]), Obj([affixed |-> TRUE]),
   Obj([freq |-> 0, note |-> "n"]),
   Obj([senses |-> <<[pos |-> "VERB"], [pos |-> "VERB"]>>])}

DataArgs ==
  {Undefined, Num(5), Obj([pos |-> "NOUN"]), Obj([affixed |-> TRUE])}

\* new BasicTrie()
InitTrie ==
  /\ trie = BasicTrie
  /\ Constructed

\* the bookkeeping of one trie operation
Record(op, word, arg, ret, threw) ==
  /\ nOps < MaxOps
  /\ nOps' = nOps + 1
  /\ lastOp' = [op |-> op, word |-> word, arg |-> arg, ret |-> ret,
                threw |-> threw]
  /\ repeated' = (lastOp.op = op /\ lastOp.word = word /\ lastOp.arg = arg)
  /\ prevTrie' = trie

Add(word, data) ==
  /\ Record("add", word, data, FALSE, FALSE)
  /\ trie' = add(trie, word, data)
  /\ added' = added \cup {wordArray(word)}
  /\ active' = active \cup {wordArray(word)}
  /\ UNCHANGED tokVars
  /\ UNCHANGED chunkVars

AddData(word, data) ==
  LET r == addData(trie, word, data)
  IN  /\ Record("addData", word, data, r.ret, r.threw)
      /\ trie' = r.trie
      /\ UNCHANGED <<added, active>>
      /\ UNCHANGED tokVars
      /\ UNCHANGED chunkVars

Deactivate(word, reverse) ==
  LET r == deactivate(trie, word, reverse)
  IN  /\ Record("deactivate", word, reverse, r.ret, r.threw)
      /\ trie' = r.trie
      /\ active' = IF ~r.ret THEN active
                    ELSE IF reverse THEN active \cup {wordArray(word)}
                    ELSE active \ {wordArray(word)}
      /\ UNCHANGED added
      /\ UNCHANGED tokVars
      /\ UNCHANGED chunkVars

\* hasWord(word): a query; its result is kept in lastOp.ret
HasWord(word) ==
  LET r == hasWord(trie, word)
  IN  /\ Record("hasWord", word, Undefined, r.exists, r.threw)
      /\ UNCHANGED <<trie, added, active>>
      /\ UNCHANGED tokVars
      /\ UNCHANGED chunkVars

NextTrie ==
  \/ \E word \in Words, data \in AddArgs : Add(word, data)
  \/ \E word \in Words, data \in DataArgs : AddData(word, data)
  \/ \E word \in Words, reverse \in BOOLEAN : Deactivate(word, reverse)
  \/ \E word \in Words : HasWord(word)

SpecTrie == InitTrie /\ [][NextTrie]_vars

---------------------------------------------------------------------------
(* The classifier and the chunking methods called on a ChunkFramework *)

ChunkAlphabet == {GA, TSEK_CHAR, LATIN_A, SPACE_CHAR}

ChunkTexts == UNION {[1..n -> ChunkAlphabet] : n \in 0..MaxLen}

\* the ignoreChars arguments tried
IgnoreSets == {{}, {GA}, {LATIN_A, TSEK_CHAR}}

InitChunk ==
  /\ trie = BasicTrie
  /\ Constructed

\* new ChunkFramework(t, ignore), once in a behaviour
NewChunkFramework(t, ignore) ==
  /\ bs.length = 0
  /\ chunkCall = NoCall
  /\ text' = t
  /\ bs' = BoString(t, ignore)
  /\ chunks' = <<>>
  /\ chunkCall' = NoCall
  /\ UNCHANGED <<trie, pc, cIdx, walker, syls, maxMatch, matchData,
                 currentNode, tokens, tokenNode, splitAffixes, callNo,
                 firstTokens, trieAtCall, foundCall>>
  /\ UNCHANGED opVars

\* the bookkeeping of a call of a chunking method on a framework built with
\* the default ignoreChars; the methods change nothing, so a behaviour
\* makes one call
Called(fn, start, end, yes, no, test, ret) ==
  /\ bs.ignoreChars = ignoreChars
  /\ chunkCall = NoCall
  /\ chunkCall' = [fn |-> fn, start |-> start, end |-> end, yes |-> yes,
                   no |-> no, test |-> test, ret |-> ret]
  /\ UNCHANGED <<trie, bs>>
  /\ UNCHANGED tokVars
  /\ UNCHANGED opVars

ChunkBoText(start, end) ==
  Called("chunkBoText", start, end, ChunkBO, ChunkOTHER,
         [i \in 0..(Len(text) - 1) |-> isBoUnicode(text, i)],
         chunkBoText(text, start, end, ChunkBO, ChunkOTHER))

ChunkPunctuation(start, end) ==
  Called("chunkPunctuation", start, end, ChunkPUNCT, ChunkNON_PUNCT,
         [i \in 0..(Len(text) - 1) |-> isPunctuation(text, i)],
         chunkPunctuation(text, start, end, ChunkPUNCT, ChunkNON_PUNCT))

ChunkLatin(start, end) ==
  Called("chunkLatin", start, end, ChunkLATIN, ChunkOTHER,
         [i \in 0..(Len(text) - 1) |-> isLatin(text, i)],
         chunkLatin(text, start, end, ChunkLATIN, ChunkOTHER))

Syllabify(start, end) ==
  Called("syllabify", start, end, ChunkTEXT, ChunkTEXT,
         [i \in 0..(Len(text) - 1) |-> isTsekOrLongSkrtVowel(text, i)],
         syllabify(text, start, end, ChunkTEXT))

\* the ranges [start, end) a method is called with, the empty ones included
Ranges == {r \in (0..Len(text)) \X (0..Len(text)) : r[1] <= r[2]}

NextChunk ==
  \/ /\ bs.length = 0
     /\ \E t \in ChunkTexts, ignore \in IgnoreSets : NewChunkFramework(t, ignore)
  \/ \E r \in Ranges : ChunkBoText(r[1], r[2])
  \/ \E r \in Ranges : ChunkPunctuation(r[1], r[2])
  \/ \E r \in Ranges : ChunkLatin(r[1], r[2])
  \/ \E r \in Ranges : Syllabify(r[1], r[2])

SpecChunk == InitChunk /\ [][NextChunk]_vars

---------------------------------------------------------------------------
(* Properties of the returned token list *)

\* the indices of the text a token spans
Span(tok) == tok.start .. (tok.start + tok.length - 1)

Indices == 0 .. (Len(text) - 1)

Returned == pc = "done"

\* C1 (Coverage): when tokenize has returned, the spans of the tokens are
\* pairwise disjoint, lie inside the text, and every index of the text in
\* no span holds a Tsek or a Transparent character.
C1_Coverage ==
  Returned =>
    /\ \A i, j \in 1..Len(tokens) :
         i # j => Span(tokens[i]) \cap Span(tokens[j]) = {}
    /\ \A i \in 1..Len(tokens) : Span(tokens[i]) \subseteq Indices
    /\ \A x \in Indices :
         (\A i \in 1..Len(tokens) : x \notin Span(tokens[i]))
           => baseStructure(text)[x] \in {TSEK, TRANSPARENT}

\* C2 (Termination): every iteration of the outer loop, that is every
\* attempt that ends, strictly increases cIdx.
C2_OuterLoopAdvances ==
  [][(pc = "inner" /\ pc' = "outer") => cIdx' > cIdx]_vars

\* C3 (Ordering): in the returned list every token ends at or before the
\* start of the token after it.
C3_Ordering ==
  Returned =>
    \A i \in 1..(Len(tokens) - 1) :
      tokens[i].start + tokens[i].length <= tokens[i + 1].start

\* the strings walk is handed for the frame entries c .. c+m-1
Keys(c, m) == [j \in 1..m |-> sylString(text, chunks[c + j].syl)]

\* the m entries from c are syllables whose path ends on a leaf
LeafAt(c, m) ==
  /\ c + m <= Len(chunks)
  /\ \A j \in 1..m : chunks[c + j].syl # Null
  /\ Keys(c, m) \in DOMAIN trie
  /\ trie[Keys(c, m)].leaf

Matches(c) == {m \in 1..(Len(chunks) - c) : LeafAt(c, m)}

RECURSIVE SumLen(_, _)
SumLen(c, m) == IF m = 0 THEN 0 ELSE SumLen(c, m - 1) + chunks[c + m].syl[3]

\* C4 (Longest match): when an attempt from cIdx ends and some number of
\* consecutive syllable entries from cIdx spells a path ending on a leaf,
\* with m the largest such number, exactly one token is emitted, it covers
\* the entries cIdx .. cIdx+m-1, it carries the data of that leaf's node,
\* and the next attempt starts at cIdx+m.
C4_LongestMatch ==
  [][(pc = "inner" /\ pc' = "outer" /\ Matches(cIdx) # {}) =>
       LET m == Max(Matches(cIdx))
           node == Keys(cIdx, m)
           tok == tokens'[Len(tokens')]
       IN  /\ Len(tokens') = Len(tokens) + 1
           /\ tok.start = chunks[cIdx + 1].syl[2]
           /\ tok.length = SumLen(cIdx, m)
           /\ tok.syllableIndices =
                [j \in 1..m |->
                   [k \in 1..3 |-> chunks[cIdx + j].syl[k] - tok.start]]
           /\ \A k \in DOMAIN trie'[node].data : tok[k] = trie'[node].data[k]
           /\ cIdx' = cIdx + m]_vars

\* an attempt ended on a recorded match shorter than the walk
C4_Witness ==
  /\ pc = "outer"
  /\ tokens # <<>>
  /\ maxMatch # <<>>
  /\ Len(syls) > Len(maxMatch[Len(maxMatch)])

\* C5 (Read-only trie): when a tokenize call has returned, the trie equals
\* the trie at the start of the call, node by node, flag by flag and sense
\* by sense.
C5_TrieReadOnly == Returned => trie = trieAtCall

\* C6 (Determinism): the second of two successive calls on the same text
\* with the same options returns the token list the first returned.
C6_Determinism == (Returned /\ callNo = 2) => tokens = firstTokens

\* a second call has returned a dictionary entry stamped NO_POS
C6_Witness ==
  /\ Returned
  /\ callNo = 2
  /\ \E i \in 1..Len(tokens) :
       /\ tokenNode[i] # Null
       /\ Has(tokens[i], "pos")
       /\ tokens[i].pos = "NO_POS"

\* C7 (Category consistency): every returned token has one category per
\* character, the one the classifier gave to that index of the text.
C7_CharTypes ==
  Returned =>
    \A i \in 1..Len(tokens) :
      /\ Len(tokens[i].charTypes) = tokens[i].length
      /\ \A k \in 0..(tokens[i].length - 1) :
           /\ tokens[i].start + k \in Indices
           /\ tokens[i].charTypes[k + 1] =
                baseStructure(text)[tokens[i].start + k]

TokenFields ==
  {"text", "start", "length", "chunkType", "pos", "lemma", "freq",
   "charTypes", "syllables", "syllableIndices", "syllableStartEnd", "senses",
   "sanskrit", "affix", "affixHost", "affixation"}

\* C8 (JSON round-trip): every returned token equals, field by field, the
\* token rebuilt from its JSON form.
C8_JsonRoundTrip ==
  Returned =>
    \A i \in 1..Len(tokens) :
      \A k \in TokenFields : SameField(clone(tokens[i]), tokens[i], k)

---------------------------------------------------------------------------
(* Properties of the trie *)

\* two senses with identical pos, lemma, freq, sense and affixed
SameSense(m1, m2) ==
  \A k \in {"pos", "lemma", "freq", "sense", "affixed"} : SameField(m1, m2, k)

sensesOf(tr, p) == IF Has(tr[p].data, "senses") THEN tr[p].data.senses ELSE <<>>

\* the last operation was given an existing, active word and an object
AddedSense ==
  /\ lastOp.op = "addData"
  /\ ~lastOp.threw
  /\ lastOp.arg.t = "object"
  /\ wordArray(lastOp.word) \in DOMAIN prevTrie
  /\ prevTrie[wordArray(lastOp.word)].leaf

RECURSIVE walkAll(_, _, _, _)
walkAll(tr, w, i, node) ==
  IF i > Len(w) THEN node
  ELSE LET n == walk(tr, w[i], node)
       IN  IF n.null THEN NullNode ELSE walkAll(tr, w, i + 1, n)

WalkFinds(tr, w) ==
  /\ ~walkAll(tr, w, 1, NullNode).null
  /\ isMatch(tr, walkAll(tr, w, 1, NullNode))

LookupWords == Words \cup {Arr(<<KT>>), Arr(<<KK, KK>>), Str(KT)}

\* C10 (Lookup agrees with walking): hasWord finds a non-empty word iff
\* walking its syllables from the root never fails and ends on a leaf;
\* right after add(w), w is found and no proper prefix of w that was never
\* added is.
C10_LookupAgreesWithWalk ==
  /\ \A word \in LookupWords :
       ~isEmptyWord(word) =>
         (hasWord(trie, word).exists <=> WalkFinds(trie, wordArray(word)))
  /\ (lastOp.op = "add" /\ ~isEmptyWord(lastOp.word)) =>
       LET w == wordArray(lastOp.word)
       IN  /\ hasWord(trie, lastOp.word).exists
           /\ \A n \in 1..(Len(w) - 1) :
                SubSeq(w, 1, n) \notin added
                  => ~hasWord(trie, Arr(SubSeq(w, 1, n))).exists

\* the last operation was a deactivate of a word passed to add before
DeactivatedAdded ==
  /\ lastOp.op = "deactivate"
  /\ ~lastOp.threw
  /\ wordArray(lastOp.word) \in added

\* C11 (Deactivation is reversible): a deactivate of an added word w makes
\* hasWord(w).exists equal to reverse, leaves every other node, the set of
\* nodes and the data of w's node as they were, and changes nothing when it
\* repeats the deactivate before it.
C11_DeactivateReversible ==
  DeactivatedAdded =>
    LET w == wordArray(lastOp.word)
        r == hasWord(trie, lastOp.word)
    IN  /\ r.exists = lastOp.arg
        /\ DOMAIN trie = DOMAIN prevTrie
        /\ \A p \in DOMAIN trie : p # w => trie[p] = prevTrie[p]
        /\ trie[r.data].data = prevTrie[w].data
        /\ repeated => trie = prevTrie

\* a deactivated word was reactivated
C11_Witness ==
  /\ DeactivatedAdded
  /\ lastOp.arg
  /\ ~prevTrie[wordArray(lastOp.word)].leaf
  /\ trie[wordArray(lastOp.word)].leaf

\* C12 (Leaf invariant): a node is a leaf iff its path is a word that was
\* passed to add and is active, and the root is never a leaf.
C12_LeafInvariant ==
  /\ \A p \in DOMAIN trie : trie[p].leaf <=> (p \in added /\ p \in active)
  /\ ~trie[<<>>].leaf

EmptyWords == {Arr(<<>>), Str(<<>>)}

\* C13 (Empty-word error): hasWord, addData and deactivate given an empty
\* word raise an error and leave the trie as it was.
C13_EmptyWordError ==
  (lastOp.op \in {"hasWord", "addData", "deactivate"}
     /\ lastOp.word \in EmptyWords)
    => (lastOp.threw /\ trie = prevTrie)

\* addData was given the empty string on a trie that holds a word
C13_Witness ==
  /\ lastOp.op = "addData"
  /\ lastOp.word = Str(<<>>)
  /\ lastOp.threw
  /\ added # {}

\* the last operation was an addData or deactivate of a word with no path
OnMissingWord ==
  /\ lastOp.op \in {"addData", "deactivate"}
  /\ lastOp.word \notin EmptyWords
  /\ wordArray(lastOp.word) \notin DOMAIN prevTrie

\* C14 (Missing word): addData and deactivate of a word the trie holds no
\* path for return false, raise nothing and leave the trie as it was.
C14_MissingWord ==
  OnMissingWord => (~lastOp.threw /\ ~lastOp.ret /\ trie = prevTrie)

\* deactivate(w, true) of a missing word whose first syllable has a node
C14_Witness ==
  /\ OnMissingWord
  /\ lastOp.op = "deactivate"
  /\ lastOp.arg
  /\ Len(wordArray(lastOp.word)) = 2
  /\ <<wordArray(lastOp.word)[1]>> \in DOMAIN prevTrie

---------------------------------------------------------------------------
(* Boundary cases and scenarios of the tokenizer *)

\* C15 (Single tsek): tokenizing a text that is exactly one tsek returns
\* exactly one token, of chunk type PUNCT, with start 0 and length 1.
C15_SingleTsek ==
  (Returned /\ text = <<TSEK_CHAR>>) =>
    /\ Len(tokens) = 1
    /\ tokens[1].chunkType = "PUNCT"
    /\ tokens[1].start = 0
    /\ tokens[1].length = 1

\* the name of a ChunkMarkers value that serveSylsToTrie puts in a frame entry
ChunkKindName(m) ==
  CASE m = ChunkTEXT -> "TEXT" [] m = ChunkBO -> "BO" [] m = ChunkOTHER -> "OTHER"

\* the tokens standing for frame entry i: its start, length, substring and kind
TokensOfRun(i) ==
  LET m == chunks[i].meta
  IN  {j \in 1..Len(tokens) :
         /\ tokens[j].start = m[2]
         /\ tokens[j].length = m[3]
         /\ tokens[j].text = SubSeq(text, m[2] + 1, m[2] + m[3])
         /\ tokens[j].chunkType = ChunkKindName(m[1])}

\* C16 (Non-Tibetan pass-through): every frame entry with no syllable, a
\* maximal non-Tibetan run, is emitted as exactly one token whose start,
\* length, text and chunk type are the run's.
C16_NonTibetanPassThrough ==
  Returned =>
    \A i \in 1..Len(chunks) :
      chunks[i].syl = Null => Cardinality(TokensOfRun(i)) = 1

\* the text of scenario S1: two syllables separated by a tsek, then a shad
TextS1 == <<GA, TSEK_CHAR, GA, SHAD_CHAR>>

\* C17 (Scenario S1): with an empty trie, two tsek-separated syllables and a
\* shad give exactly three tokens: a TEXT token for the first syllable
\* without its tsek with pos NO_POS, a TEXT token for the second syllable
\* with pos NO_POS, and a PUNCT token for the shad.
C17_ScenarioS1 ==
  (Returned /\ text = TextS1 /\ trieAtCall = BasicTrie) =>
    /\ Len(tokens) = 3
    /\ \A i \in 1..2 :
         /\ tokens[i].chunkType = "TEXT"
         /\ tokens[i].text = <<GA>>
         /\ Has(tokens[i], "pos")
         /\ tokens[i].pos = "NO_POS"
    /\ tokens[3].chunkType = "PUNCT"
    /\ tokens[3].text = <<SHAD_CHAR>>

\* the characters of the syllable a frame entry spans, without the tsek
SyllableText(syl) ==
  SelectSeq(SubSeq(text, syl[2] + 1, syl[2] + syl[3]),
            LAMBDA c : c # TSEK_CHAR)

\* the texts of scenario S2: the two syllables of the word, with and
\* without a closing shad
TextsS2 == {<<GA, TSEK_CHAR, GA>>, <<GA, TSEK_CHAR, GA, SHAD_CHAR>>}

\* C18 (Syllable key): the string passed to walk() for a syllable entry is
\* the text of that syllable without its separator, and so a word added as
\* the list of its syllables is matched as one token with the word's pos
\* when the syllables follow each other in the text (scenario S2).
C18_SyllableKey ==
  /\ (pc = "inner" /\ curSyl # Null) =>
        sylString(text, curSyl) = SyllableText(curSyl)
  /\ (Returned /\ trieAtCall = DictS2 /\ text \in TextsS2) =>
        /\ Len(tokens) >= 1
        /\ tokens[1].start = 0
        /\ tokens[1].length >= 3
        /\ Has(tokens[1], "pos")
        /\ tokens[1].pos = "NOUN"

---------------------------------------------------------------------------
(* The finalizer: sense selection and affix splitting *)

\* the rank of the bucket a sense falls in: explicitly non-affixed first,
\* no affixed key second, explicitly affixed last
BucketRank(m) == IF ~Has(m, "affixed") THEN 2 ELSE IF m.affixed THEN 3 ELSE 1

\* the senses of the first non-empty bucket with the most attributes
BestSenses(senses) ==
  {i \in 1..Len(senses) :
     \A j \in 1..Len(senses) :
       \/ BucketRank(senses[j]) > BucketRank(senses[i])
       \/ /\ BucketRank(senses[j]) = BucketRank(senses[i])
          /\ Cardinality(DOMAIN senses[j]) <= Cardinality(DOMAIN senses[i])}

\* the token carries the values of sense m for the attributes m has
CarriesSense(token, m) ==
  \A k \in DOMAIN m \cap {"pos", "lemma", "freq", "sense"} :
    Has(token, k) /\ token[k] = m[k]

\* C19 (Sense selection): every returned token with at least one sense
\* carries the pos, lemma, freq and sense of a sense that lies in the first
\* non-empty bucket (non-affixed, no affixed key, affixed) and has the
\* largest number of attributes in it; the senses of scenario S6 give pos B.
C19_SenseSelection ==
  Returned =>
    \A j \in 1..Len(tokens) :
      (Has(tokens[j], "senses") /\ tokens[j].senses # <<>>) =>
        /\ \E i \in BestSenses(tokens[j].senses) :
             CarriesSense(tokens[j], tokens[j].senses[i])
        /\ tokens[j].senses = SensesS6 => tokens[j].pos = "B"

\* a returned token that has the three senses of scenario S6 and pos B
C19_Witness ==
  /\ Returned
  /\ \E j \in 1..Len(tokens) :
       /\ Has(tokens[j], "senses")
       /\ tokens[j].senses = SensesS6
       /\ tokens[j].pos = "B"

\* token j of the output is the affix half of a split: it is marked affix
\* and the token before it is marked affixHost
IsSplitAffix(j) ==
  /\ Has(tokens[j], "affix") /\ tokens[j].affix = TRUE
  /\ j > 1
  /\ Has(tokens[j - 1], "affixHost") /\ tokens[j - 1].affixHost = TRUE

\* C20 (Affix splitting): with splitAffixes = true no TEXT token ending in a
\* listed affix (with or without a tsek) is returned whole: it is returned
\* as a host token marked affixHost followed by an affix token marked
\* affix; with splitAffixes = false no token is split.
C20_AffixSplitting ==
  Returned =>
    \A j \in 1..Len(tokens) :
      IF splitAffixes
        THEN hasAffix(tokens[j]) => IsSplitAffix(j)
        ELSE ~IsSplitAffix(j)

---------------------------------------------------------------------------
(* The classifier and the chunking methods *)

\* the values of CharMarkers
CharMarkerValues == 0..17

\* C21 (Classification): the category vector of a BoString has exactly one
\* defined category per index of the text; the category at an index is the
\* one the character gets as a text of its own with the same ignore set;
\* a character of the ignore set is TRANSPARENT whatever its range.
C21_Classification ==
  /\ bs.length = Len(text)
  /\ DOMAIN bs.baseStructure = 0..(Len(text) - 1)
  /\ \A i \in DOMAIN bs.baseStructure :
       /\ bs.baseStructure[i] \in CharMarkerValues
       /\ bs.baseStructure[i]
            = BoString(<<text[i + 1]>>, bs.ignoreChars).baseStructure[0]
       /\ text[i + 1] \in bs.ignoreChars
            => bs.baseStructure[i] = TRANSPARENT

\* a text with an ignored Tibetan consonant at two places, one of them after
\* a character that is not ignored
C21_Witness ==
  /\ bs.ignoreChars = {GA}
  /\ Len(text) = 3
  /\ text[1] = GA /\ text[2] # GA /\ text[3] = GA
  /\ bs.baseStructure[0] = TRANSPARENT
  /\ bs.baseStructure[2] = TRANSPARENT

\* the last call was one of the methods that return chunkUsing's result
ChunkUsingCalled ==
  chunkCall.fn \in {"chunkBoText", "chunkPunctuation", "chunkLatin"}

\* chunk j of a result ends before this index
ChunkEnd(r, j) == r[j][2] + r[j][3]

\* C23 (Chunk partition): the chunks chunkUsing returns for [start, end) are
\* in order, of positive length, begin at start, each begins where the one
\* before ends, end at end, alternate between the yes and the no label, and
\* every index of a yes chunk satisfies the predicate while no index of a no
\* chunk does; an empty range gives no chunk.
C23_ChunkPartition ==
  ChunkUsingCalled =>
    LET c == chunkCall
        r == chunkCall.ret
    IN  /\ c.start >= c.end => r = <<>>
        /\ c.start < c.end =>
             /\ Len(r) >= 1
             /\ r[1][2] = c.start
             /\ ChunkEnd(r, Len(r)) = c.end
             /\ \A j \in 1..Len(r) :
                  /\ r[j][3] > 0
                  /\ r[j][1] \in {c.yes, c.no}
                  /\ j > 1 => /\ r[j][2] = ChunkEnd(r, j - 1)
                              /\ r[j][1] # r[j - 1][1]
                  /\ \A i \in r[j][2]..(ChunkEnd(r, j) - 1) :
                       c.test[i] <=> (r[j][1] = c.yes)

\* chunkPunctuation over a range that begins inside the text gave three chunks
C23_Witness ==
  /\ chunkCall.fn = "chunkPunctuation"
  /\ chunkCall.start > 0
  /\ Len(chunkCall.ret) = 3
  /\ chunkCall.ret[1][1] = ChunkPUNCT

\* the indices of [start, end) at which a maximal separator-free run begins
RunStarts(c) ==
  {i \in c.start..(c.end - 1) :
     ~c.test[i] /\ (i = c.start \/ c.test[i - 1])}

\* C24 (Syllabify separators): no span syllabify returns contains a
\* separator, no span is empty, and there are as many spans as maximal
\* separator-free runs in the range.
C24_SyllabifySeparators ==
  chunkCall.fn = "syllabify" =>
    LET c == chunkCall
        r == chunkCall.ret
    IN  /\ Len(r) = Cardinality(RunStarts(c))
        /\ \A j \in 1..Len(r) :
             /\ r[j][3] > 0
             /\ \A i \in r[j][2]..(ChunkEnd(r, j) - 1) : ~c.test[i]

\* C25 (Tibetan-run predicate): chunkBoText puts an index in a BO chunk iff
\* its category is none of LATIN, CJK, OTHER, TRANSPARENT, and the test of
\* the framework agrees with BoString.isTibetan at every index.
C25_BoPredicate ==
  chunkCall.fn = "chunkBoText" =>
    LET r == chunkCall.ret
    IN  /\ \A j \in 1..Len(r) :
             \A i \in r[j][2]..(ChunkEnd(r, j) - 1) :
               (r[j][1] = ChunkBO) <=>
                 bs.baseStructure[i] \notin {LATIN, CJK, CharOTHER, TRANSPARENT}
        /\ \A i \in 0..(Len(text) - 1) :
             isBoUnicode(text, i) <=> isTibetan(text, i)

---------------------------------------------------------------------------
(* The trie: how add routes its data *)

\* the senses the node of the added word had before the add
SensesBefore(w) ==
  IF w \in DOMAIN prevTrie /\ Has(prevTrie[w].data, "senses")
    THEN prevTrie[w].data.senses ELSE <<>>

\* C26 (Node-data routing on add): after add(word, data) with an object
\* data, the node's senses are the former senses, with data added through
\* addMeaning when data has any of the keys pos, lemma, freq, sense,
\* affixed (whatever the value), then every element of data.senses added
\* through addMeaning; every other key of data is on the node unchanged.
C26_NodeDataRouting ==
  (lastOp.op = "add" /\ lastOp.arg.t = "object") =>
    LET w == wordArray(lastOp.word)
        d == lastOp.arg.v
        s1 == IF DOMAIN d \cap SenseKeys # {}
                THEN addMeaning(SensesBefore(w), d).senses
                ELSE SensesBefore(w)
        s2 == IF Has(d, "senses") THEN addMeanings(s1, d.senses, 1) ELSE s1
    IN  /\ trie[w].data.senses = s2
        /\ \A k \in DOMAIN d \ (SenseKeys \cup {"senses"}) :
             Has(trie[w].data, k) /\ trie[w].data[k] = d[k]

---------------------------------------------------------------------------
(* The match engine: unmatched runs, NO_POS, the empty trie, the loop *)

\* this step ends an attempt that walked at least one syllable and saw no leaf
UnmatchedExit ==
  /\ pc = "inner"
  /\ pc' = "outer"
  /\ maxMatch' = <<>>
  /\ Len(syls') >= 1

\* C22 (Unmatched-run policy): a step that ends an attempt with k >= 1
\* walked syllables and no leaf seen emits exactly one token, which covers
\* the first walked syllable only and is marked NO_POS, and leaves cIdx at
\* the frame entry right after that first syllable.
C22_UnmatchedRun ==
  [][UnmatchedExit =>
       LET first == chunks[syls'[1] + 1].syl
           token == tokens'[Len(tokens')]
       IN  /\ Len(tokens') = Len(tokens) + 1
           /\ token.start = first[2]
           /\ token.length = first[3]
           /\ Has(token, "senses")
           /\ token.senses = <<[pos |-> "NO_POS"]>>
           /\ cIdx' = syls'[1] + 1]_vars

\* this step pushes a token that addFoundWordOrNonWord built with the NO_POS
\* marker: a matched entry none of whose senses has a pos, or the first
\* syllable of an unmatched run
MarkedNoPos ==
  /\ pc = "inner"
  /\ Len(tokens') = Len(tokens) + 1
  /\ LET nd == tokenNode'[Len(tokens')]
     IN  IF nd # Null THEN matchType(trie[nd[1]].data) = "NO_POS"
                      ELSE Len(syls') >= 1

\* the senses of the matched entry before the token was built
SensesOfEntry(nd) ==
  IF nd # Null /\ Has(trie[nd[1]].data, "senses")
    THEN trie[nd[1]].data.senses ELSE <<>>

\* C27 (NO_POS population): every token built with the NO_POS marker has a
\* non-empty senses list in which every sense has a pos, and the senses of
\* the entry that had no pos carry NO_POS.
C27_NoPosPopulated ==
  [][MarkedNoPos =>
       LET token == tokens'[Len(tokens')]
           before == SensesOfEntry(tokenNode'[Len(tokens')])
       IN  /\ Has(token, "senses")
           /\ token.senses # <<>>
           /\ \A i \in 1..Len(token.senses) :
                TruthyKey(token.senses[i], "pos")
           /\ \A i \in 1..Len(before) :
                ~TruthyKey(before[i], "pos")
                  => token.senses[i].pos = "NO_POS"]_vars

\* the running call was started on the empty trie
OnEmptyTrie == pc # "idle" /\ trieAtCall = BasicTrie

\* token j stands for frame entry j
TokenOfEntry(j) ==
  IF chunks[j].syl # Null
    THEN /\ tokens[j].start = chunks[j].syl[2]
         /\ tokens[j].length = chunks[j].syl[3]
    ELSE ~Has(tokens[j], "syllableIndices")

\* C28 (Empty trie): with an empty trie every outer iteration emits one
\* token and moves cIdx on by one, the call returns, the returned tokens
\* stand one for one and in order for the frame entries, none has a pos or
\* senses, and the empty text gives no token.
C28_EmptyTrie ==
  /\ [][(OnEmptyTrie /\ pc = "inner" /\ pc' # "inner") =>
          /\ pc' = "outer"
          /\ cIdx' = cIdx + 1
          /\ Len(tokens') = Len(tokens) + 1]_vars
  /\ [](OnEmptyTrie /\ Returned =>
          /\ Len(tokens) = Len(chunks)
          /\ \A j \in 1..Len(tokens) :
               /\ TokenOfEntry(j)
               /\ ~Has(tokens[j], "pos")
               /\ ~Has(tokens[j], "senses")
          /\ text = <<>> => tokens = <<>>)
  /\ (OnEmptyTrie ~> Returned)

\* a call on the empty trie returned tokens for a frame of a syllable, a
\* non-Tibetan run and another syllable
C28_Witness ==
  /\ OnEmptyTrie
  /\ Returned
  /\ Len(chunks) = 3
  /\ Len(tokens) = 3
  /\ chunks[1].syl # Null /\ chunks[2].syl = Null /\ chunks[3].syl # Null

\* C29: inside the match loop cIdx <= walker < number of frame entries and
\* syls is the contiguous list cIdx, cIdx + 1, ... up to the walker; every
\* call of addFoundWordOrNonWord has a non-empty syllable list and an index
\* that is a key of matchData unless matchData is empty, so that the
\* non-max-match branch is never taken; and tokenize never throws.
C29_MatchLoop ==
  /\ pc = "inner" =>
       /\ cIdx <= walker
       /\ walker < Len(chunks)
       /\ syls = [j \in 1..(walker - cIdx) |-> cIdx + j - 1]
  /\ foundCall.made =>
       /\ Len(foundCall.syls) > 0
       /\ foundCall.idx \in foundCall.keys \/ foundCall.keys = {}
  /\ pc # "threw"

\* a match committed after a longer walk failed: two matches were recorded
\* and the walker is past the index passed to addFoundWordOrNonWord
C29_Witness ==
  /\ foundCall.made
  /\ Cardinality(foundCall.keys) = 2
  /\ foundCall.idx \in foundCall.keys
  /\ walker > foundCall.idx

---------------------------------------------------------------------------
(* The options of WordTokenizer.tokenize *)

\* new ChunkFramework(text, ignoreChars, spacesAsPunct): the flag is stored
ChunkFramework(t, ignore, spaces) ==
  [text |-> t, bs |-> BoString(t, ignore), chunks |-> <<>>,
   spacesAsPunct |-> spaces]

===========================================================================
